---- MODULE Spec2Model ----
(***************************************************************************)
(* State-machine model of nkms.keystore.keystore.KeyStore: the three       *)
(* tables (Keys, PolicyContracts, Workorders) reached through SQLAlchemy   *)
(* sessions, and the ten public operations of the facade.  Every action is *)
(* one whole call of a KeyStore method, including its commit.              *)
(***************************************************************************)
EXTENDS Integers, Sequences, FiniteSets, TLC

(* ---------------------------------------------------------------------- *)
(* Bounds of the model                                                     *)
(* ---------------------------------------------------------------------- *)
\* A Key row is inserted only while the next primary key is at most this.
MaxKeyId == 2
\* A Workorder row is inserted only while fewer than this many are stored.
MaxWorkorders == 2

(* ---------------------------------------------------------------------- *)
(* Input domains                                                           *)
(* ---------------------------------------------------------------------- *)
\* Python None where an object is expected (a key, a session), and where
\* bytes are expected (an absent argument, stored as a NULL column).
None == "None"
Null == <<-1>>
\* The result of Query.first() on an empty result set.
NoRow == [none |-> TRUE]

\* Public key objects handed to the facade.
KeyValues == {"KA", "KB"}
\* hrac byte strings, and the text strings whose encoding they are.
HracStrs == {"H1", "H2"}
\* Key fragment objects.
KFrags == {"F1", "F2"}
Expirations == {10, 20}
Deposits == {100, 200}
Signatures == {<<83, 1>>}
\* The sessions a caller can pass: none, or an explicit one of its own.
SessionArgs == {None, "s1"}
\* Concurrent callers, each named by the session it owns and passes.
Callers == {"s1", "s2"}

(* ---------------------------------------------------------------------- *)
(* Conversions                                                             *)
(* ---------------------------------------------------------------------- *)
\* bytes(key): the serialized public key.
KeyBytes(key) ==
    CASE key = "KA" -> <<2, 65>>
      [] key = "KB" -> <<3, 66>>

\* UmbralPublicKey.from_bytes(key_data, as_b64=False)
FromBytes(key_data) ==
    CHOOSE key \in KeyValues : KeyBytes(key) = key_data

\* fingerprint_from_key(key): a digest of the key's bytes.
fingerprint_from_key(key) ==
    LET b == KeyBytes(key) IN <<(b[1] * 31 + b[2]) % 251>>

\* str.encode(): the bytes of a text string.
Encode(s) ==
    CASE s = "H1" -> <<72, 49>>
      [] s = "H2" -> <<72, 50>>

Hracs == {Encode(s) : s \in HracStrs}

\* bytes(kfrag): the serialized key fragment.
KFragBytes(kfrag) ==
    CASE kfrag = "F1" -> <<70, 1>>
      [] kfrag = "F2" -> <<70, 2>>

\* The principals that can call attach_kfrag_to_saved_contract: each has a
\* stamp, the bytes of its signing public key.
Principals == {[stamp |-> KeyBytes(k)] : k \in KeyValues}

(* ---------------------------------------------------------------------- *)
(* State                                                                   *)
(* ---------------------------------------------------------------------- *)
VARIABLES
    keys,         \* the Keys table, in insertion order
    contracts,    \* the PolicyContracts table, in insertion order
    workorders,   \* the Workorders table, in insertion order
    nextKeyId,    \* the primary key the next inserted Key row gets
    last,         \* the last call: operation, arguments, outcome
    callers       \* the add_policy_contract call each concurrent caller is in

vars == <<keys, contracts, workorders, nextKeyId, last, callers>>
tables == <<keys, contracts, workorders>>

(* ---------------------------------------------------------------------- *)
(* Sessions, queries and commit                                            *)
(* ---------------------------------------------------------------------- *)
\* session = session or self._session_on_init_thread
ResolveSession(session) ==
    IF session = None THEN "default" ELSE session

\* Query.first()
First(rows) ==
    IF rows = <<>> THEN NoRow ELSE rows[1]

\* Mutant: the lookup filters on the key_data column.
KeysByFingerprint_ByKeyData(fingerprint) ==
    SelectSeq(keys, LAMBDA r : r.key_data = fingerprint)

\* session.query(Key).filter_by(fingerprint=fingerprint)
KeysByFingerprint(fingerprint) ==
    SelectSeq(keys, LAMBDA r : r.fingerprint = fingerprint)

\* Mutant: the lookup filters on the fingerprint column.
KeysByKeyData_ByFingerprint(key_data) ==
    SelectSeq(keys, LAMBDA r : r.fingerprint = key_data)

\* session.query(Key).filter_by(key_data=key_data)
KeysByKeyData(key_data) ==
    SelectSeq(keys, LAMBDA r : r.key_data = key_data)

\* session.query(PolicyContract).filter_by(hrac=hrac)
ContractsByHrac(hrac) ==
    SelectSeq(contracts, LAMBDA r : r.hrac = hrac)

\* session.query(Workorder).filter_by(hrac=hrac)
WorkordersByHrac(hrac) ==
    SelectSeq(workorders, LAMBDA r : r.hrac = hrac)

\* The Key row a foreign key column refers to, NoRow when none is stored.
KeyById(id) ==
    First(SelectSeq(keys, LAMBDA r : r.id = id))

\* Mutant: the Keys table has no uniqueness constraint.
UniqueFingerprints_Unchecked(ks) ==
    TRUE

\* Keys.fingerprint is declared unique.
UniqueFingerprints(ks) ==
    \A i, j \in DOMAIN ks : ks[i].fingerprint = ks[j].fingerprint => i = j

\* Mutant: the PolicyContracts table has no uniqueness constraint.
UniqueHracs_Unchecked(cs) ==
    TRUE

\* PolicyContracts.hrac is declared unique.
UniqueHracs(cs) ==
    \A i, j \in DOMAIN cs : cs[i].hrac = cs[j].hrac => i = j

\* session.commit() of a unit of work that would leave the tables as ks and
\* cs: the storage engine may fail (fault), a uniqueness constraint may be
\* violated, or the transaction is made durable.
CommitOutcome(ks, cs, fault) ==
    IF fault THEN "OperationalError"
    ELSE IF ~UniqueFingerprints(ks) \/ ~UniqueHracs(cs) THEN "IntegrityError"
    ELSE "none"

\* Key(fingerprint, key_data, is_signing), with the primary key it is given
\* when it is inserted.
NewKey(key, is_signing) ==
    [id |-> nextKeyId,
     fingerprint |-> fingerprint_from_key(key),
     key_data |-> KeyBytes(key),
     is_signing |-> is_signing]

Init ==
    /\ keys = <<>>
    /\ contracts = <<>>
    /\ workorders = <<>>
    /\ nextKeyId = 1
    /\ last = [op |-> "init", exc |-> "none", sessions |-> {}]
    /\ callers = [c \in Callers |-> [pc |-> "idle"]]

(* ---------------------------------------------------------------------- *)
(* Operations on Keys                                                      *)
(* ---------------------------------------------------------------------- *)
\* The body of add_key: build the row, add it, commit.  Gives the outcome
\* of the commit, the Keys table after it and the row that is returned.
AddKeyEffect(key, is_signing, fault) ==
    LET new_key == NewKey(key, is_signing)
        ks == Append(keys, new_key)
        exc == CommitOutcome(ks, contracts, fault)
    IN  [exc |-> exc,
         keys |-> IF exc = "none" THEN ks ELSE keys,
         new_key |-> new_key]

\* KeyStore.add_key(key, is_signing, session)
add_key(key, is_signing, session, fault) ==
    LET eff == AddKeyEffect(key, is_signing, fault)
    IN  /\ eff.exc = "none" => nextKeyId <= MaxKeyId
        /\ keys' = eff.keys
        /\ nextKeyId' = IF eff.exc = "none" THEN nextKeyId + 1 ELSE nextKeyId
        /\ last' = [op |-> "add_key", key |-> key, exc |-> eff.exc,
                    ret |-> IF eff.exc = "none" THEN eff.new_key ELSE NoRow,
                    session |-> session,
                    sessions |-> {ResolveSession(session)}]
        /\ UNCHANGED <<contracts, workorders, callers>>

\* The result of get_key: NotFound, or the deserialized public key.
GetKeyResult(fingerprint) ==
    LET key == First(KeysByFingerprint(fingerprint))
    IN  IF key = NoRow
        THEN [exc |-> "NotFound", ret |-> None]
        ELSE [exc |-> "none", ret |-> FromBytes(key.key_data)]

\* KeyStore.get_key(fingerprint, session)
get_key(fingerprint, session) ==
    LET res == GetKeyResult(fingerprint)
    IN  /\ last' = [op |-> "get_key", fingerprint |-> fingerprint,
                    exc |-> res.exc, ret |-> res.ret,
                    session |-> session,
                    sessions |-> {ResolveSession(session)}]
        /\ UNCHANGED <<keys, contracts, workorders, nextKeyId, callers>>

\* Mutant: the delete filters on the key_data column.
KeysWithout_ByKeyData(fingerprint) ==
    SelectSeq(keys, LAMBDA r : r.key_data # fingerprint)

\* The Keys table after Query.delete() of the rows with this fingerprint.
KeysWithout(fingerprint) ==
    SelectSeq(keys, LAMBDA r : r.fingerprint # fingerprint)

\* KeyStore.del_key(fingerprint, session)
del_key(fingerprint, session, fault) ==
    LET ks == KeysWithout(fingerprint)
        exc == CommitOutcome(ks, contracts, fault)
    IN  /\ keys' = IF exc = "none" THEN ks ELSE keys
        /\ last' = [op |-> "del_key", fingerprint |-> fingerprint,
                    exc |-> exc,
                    session |-> session, sessions |-> {ResolveSession(session)}]
        /\ UNCHANGED <<contracts, workorders, nextKeyId, callers>>

(* ---------------------------------------------------------------------- *)
(* Operations on PolicyContracts                                           *)
(* ---------------------------------------------------------------------- *)
\* Mutant: the kfrag is also passed as the signature.
NewPolicyContract_SignedByKfrag(expiration, deposit, hrac, kfrag, alice_key_instance) ==
    [expiration |-> expiration,
     deposit |-> deposit,
     hrac |-> hrac,
     k_frag |-> kfrag,
     alice_pubkey_sig_id |-> alice_key_instance.id,
     alice_signature |-> kfrag]

\* Mutant: expiration and deposit are passed in the wrong order.
NewPolicyContract_Swapped(expiration, deposit, hrac, kfrag, alice_key_instance) ==
    [expiration |-> deposit,
     deposit |-> expiration,
     hrac |-> hrac,
     k_frag |-> kfrag,
     alice_pubkey_sig_id |-> alice_key_instance.id,
     alice_signature |-> Null]

\* PolicyContract(expiration, deposit, hrac, kfrag,
\*                alice_pubkey_sig=alice_key_instance, alice_signature=None)
NewPolicyContract(expiration, deposit, hrac, kfrag, alice_key_instance) ==
    [expiration |-> expiration,
     deposit |-> deposit,
     hrac |-> hrac,
     k_frag |-> kfrag,
     alice_pubkey_sig_id |-> alice_key_instance.id,
     alice_signature |-> Null]

\* KeyStore.add_policy_contract(expiration, deposit, hrac, kfrag,
\*                              alice_pubkey_sig, alice_signature, session)
add_policy_contract(expiration, deposit, hrac, kfrag, alice_pubkey_sig, alice_signature, session, fault) ==
    IF alice_pubkey_sig = None
    THEN \* bytes(None) raises TypeError
         /\ last' = [op |-> "add_policy_contract", hrac |-> hrac,
                     alice_pubkey_sig |-> alice_pubkey_sig,
                     exc |-> "TypeError", ret |-> NoRow,
                     session |-> session,
                     sessions |-> {ResolveSession(session)}]
         /\ UNCHANGED <<keys, contracts, workorders, nextKeyId, callers>>
    ELSE LET found == First(KeysByKeyData(KeyBytes(alice_pubkey_sig)))
             alice_key_instance ==
                 IF found = NoRow THEN NewKey(alice_pubkey_sig, TRUE)
                 ELSE found
             ks == IF found = NoRow THEN Append(keys, alice_key_instance)
                   ELSE keys
             new_policy_contract ==
                 NewPolicyContract(expiration, deposit, hrac, kfrag,
                                   alice_key_instance)
             cs == Append(contracts, new_policy_contract)
             exc == CommitOutcome(ks, cs, fault)
         IN  /\ (found = NoRow /\ exc = "none") => nextKeyId <= MaxKeyId
             /\ keys' = IF exc = "none" THEN ks ELSE keys
             /\ contracts' = IF exc = "none" THEN cs ELSE contracts
             /\ nextKeyId' = IF exc = "none" /\ found = NoRow
                             THEN nextKeyId + 1 ELSE nextKeyId
             /\ last' = IF exc = "none"
                         THEN [op |-> "add_policy_contract", hrac |-> hrac,
                               alice_pubkey_sig |-> alice_pubkey_sig,
                               expiration |-> expiration,
                               deposit |-> deposit, kfrag |-> kfrag,
                               alice_signature |-> alice_signature,
                               exc |-> exc, ret |-> new_policy_contract,
                               session |-> session,
                               sessions |-> {ResolveSession(session)}]
                         ELSE [op |-> "add_policy_contract", hrac |-> hrac,
                               alice_pubkey_sig |-> alice_pubkey_sig,
                               exc |-> exc, ret |-> NoRow,
                               session |-> session,
                               sessions |-> {ResolveSession(session)}]
             /\ UNCHANGED <<workorders, callers>>

\* add_policy_contract of a concurrent caller, up to its query: the session
\* is the caller's own, and the delegator's key is looked up in what is
\* committed at that moment.
add_policy_contract_query(c, expiration, deposit, hrac, kfrag, alice_pubkey_sig) ==
    /\ callers[c].pc = "idle"
    /\ callers' = [callers EXCEPT ![c] =
                      [pc |-> "queried", expiration |-> expiration,
                       deposit |-> deposit, hrac |-> hrac, kfrag |-> kfrag,
                       alice_pubkey_sig |-> alice_pubkey_sig,
                       found |-> First(KeysByKeyData(KeyBytes(alice_pubkey_sig)))]]
    /\ UNCHANGED <<keys, contracts, workorders, nextKeyId, last>>

\* add_policy_contract of a concurrent caller, from the result of its query
\* to session.add: the Key and PolicyContract objects are built and are
\* pending in the caller's session; nothing is written yet.
add_policy_contract_add(c) ==
    /\ callers[c].pc = "queried"
    /\ callers' = [callers EXCEPT ![c].pc = "added"]
    /\ UNCHANGED <<keys, contracts, workorders, nextKeyId, last>>

\* add_policy_contract of a concurrent caller, its commit: the pending Key
\* (when the query had found none) and PolicyContract are inserted into what
\* is committed by now, and the call returns or raises.
add_policy_contract_commit(c) ==
    /\ callers[c].pc = "added"
    /\ LET call == callers[c]
           alice_key_instance ==
               IF call.found = NoRow THEN NewKey(call.alice_pubkey_sig, TRUE)
               ELSE call.found
           ks == IF call.found = NoRow THEN Append(keys, alice_key_instance)
                 ELSE keys
           new_policy_contract ==
               NewPolicyContract(call.expiration, call.deposit, call.hrac,
                                 call.kfrag, alice_key_instance)
           cs == Append(contracts, new_policy_contract)
           exc == CommitOutcome(ks, cs, FALSE)
       IN  /\ (call.found = NoRow /\ exc = "none") => nextKeyId <= MaxKeyId
           /\ keys' = IF exc = "none" THEN ks ELSE keys
           /\ contracts' = IF exc = "none" THEN cs ELSE contracts
           /\ nextKeyId' = IF exc = "none" /\ call.found = NoRow
                           THEN nextKeyId + 1 ELSE nextKeyId
           /\ last' = [op |-> "add_policy_contract", hrac |-> call.hrac,
                       alice_pubkey_sig |-> call.alice_pubkey_sig,
                       exc |-> exc,
                       ret |-> IF exc = "none" THEN new_policy_contract
                               ELSE NoRow,
                       session |-> c, sessions |-> {c}]
           /\ callers' = [callers EXCEPT ![c] =
                             [pc |-> "done", hrac |-> call.hrac,
                              alice_pubkey_sig |-> call.alice_pubkey_sig,
                              found |-> call.found, exc |-> exc]]
           /\ UNCHANGED workorders

\* The result of get_policy_contract: NotFound, or the first row found.
GetPolicyContractResult(hrac) ==
    LET policy_contract == First(ContractsByHrac(hrac))
    IN  IF policy_contract = NoRow
        THEN [exc |-> "NotFound", ret |-> NoRow]
        ELSE [exc |-> "none", ret |-> policy_contract]

\* KeyStore.get_policy_contract(hrac, session)
get_policy_contract(hrac, session) ==
    LET res == GetPolicyContractResult(hrac)
    IN  /\ last' = [op |-> "get_policy_contract", hrac |-> hrac,
                    exc |-> res.exc, ret |-> res.ret,
                    session |-> session,
                    sessions |-> {ResolveSession(session)}]
        /\ UNCHANGED <<keys, contracts, workorders, nextKeyId, callers>>

\* The PolicyContracts table after Query.delete() of the rows with this hrac.
ContractsWithout(hrac) ==
    SelectSeq(contracts, LAMBDA r : r.hrac # hrac)

\* KeyStore.del_policy_contract(hrac, session)
del_policy_contract(hrac, session, fault) ==
    LET cs == ContractsWithout(hrac)
        exc == CommitOutcome(keys, cs, fault)
    IN  /\ contracts' = IF exc = "none" THEN cs ELSE contracts
        /\ last' = [op |-> "del_policy_contract", hrac |-> hrac,
                    exc |-> exc,
                    session |-> session, sessions |-> {ResolveSession(session)}]
        /\ UNCHANGED <<keys, workorders, nextKeyId, callers>>

\* The position of the row that Query.first() loads for this hrac.
FirstContractIndex(hrac) ==
    CHOOSE i \in DOMAIN contracts :
        /\ contracts[i].hrac = hrac
        /\ \A j \in DOMAIN contracts : contracts[j].hrac = hrac => i <= j

\* Mutant: the comparison is inverted.
StampDiffers_Inverted(alice_key, alice) ==
    alice_key.key_data = alice.stamp

\* policy_contract.alice_pubkey_sig.key_data != alice.stamp
StampDiffers(alice_key, alice) ==
    alice_key.key_data # alice.stamp

\* The outcome of attach_kfrag_to_saved_contract up to its commit: the
\* exception of its lookup and check, "none" when the kfrag is to be set.
AttachCheck(alice, hrac_as_hex) ==
    LET policy_contract == First(ContractsByHrac(Encode(hrac_as_hex)))
    IN  IF policy_contract = NoRow
        THEN "AttributeError"       \* None has no alice_pubkey_sig
        ELSE LET alice_key == KeyById(policy_contract.alice_pubkey_sig_id)
             IN  IF alice_key = NoRow
                 THEN "AttributeError"   \* None has no key_data
                 ELSE IF StampDiffers(alice_key, alice)
                      THEN "SuspiciousActivity"
                      ELSE "none"

\* Mutant: the kfrag is set on the newest contract, whatever its hrac.
SetKfrag_LastRow(hrac, kfrag) ==
    [contracts EXCEPT ![Len(contracts)].k_frag = KFragBytes(kfrag)]

\* policy_contract.k_frag = bytes(kfrag)
SetKfrag(hrac, kfrag) ==
    [contracts EXCEPT ![FirstContractIndex(hrac)].k_frag = KFragBytes(kfrag)]

\* KeyStore.attach_kfrag_to_saved_contract(alice, hrac_as_hex, kfrag, session)
attach_kfrag_to_saved_contract(alice, hrac_as_hex, kfrag, session, fault) ==
    LET check == AttachCheck(alice, hrac_as_hex)
        cs == IF check = "none" THEN SetKfrag(Encode(hrac_as_hex), kfrag)
              ELSE contracts
        exc == IF check = "none" THEN CommitOutcome(keys, cs, fault)
               ELSE check
    IN  /\ contracts' = IF exc = "none" THEN cs ELSE contracts
        /\ last' = [op |-> "attach_kfrag_to_saved_contract", alice |-> alice,
                    hrac_as_hex |-> hrac_as_hex, kfrag |-> kfrag,
                    exc |-> exc,
                    session |-> session, sessions |-> {ResolveSession(session)}]
        /\ UNCHANGED <<keys, workorders, nextKeyId, callers>>

(* ---------------------------------------------------------------------- *)
(* Operations on Workorders                                                *)
(* ---------------------------------------------------------------------- *)
\* Workorder(bob_pubkey_sig.id, bob_signature, hrac)
NewWorkorder(bob_key, bob_signature, hrac) ==
    [bob_pubkey_sig_id |-> bob_key.id,
     bob_signature |-> bob_signature,
     hrac |-> hrac]

\* KeyStore.add_workorder(bob_pubkey_sig, bob_signature, hrac, session):
\* self.add_key(bob_pubkey_sig) commits on the default session, then the
\* workorder is added and committed on the session of the call.
add_workorder(bob_pubkey_sig, bob_signature, hrac, session, fault_key, fault) ==
    LET eff == AddKeyEffect(bob_pubkey_sig, TRUE, fault_key)
        new_workorder == NewWorkorder(eff.new_key, bob_signature, hrac)
        ws == Append(workorders, new_workorder)
        exc == IF eff.exc # "none" THEN eff.exc
               ELSE CommitOutcome(eff.keys, contracts, fault)
    IN  /\ eff.exc = "none" => nextKeyId <= MaxKeyId
        /\ exc = "none" => Len(workorders) < MaxWorkorders
        /\ keys' = eff.keys
        /\ nextKeyId' = IF eff.exc = "none" THEN nextKeyId + 1
                        ELSE nextKeyId
        /\ workorders' = IF exc = "none" THEN ws ELSE workorders
        /\ last' = [op |-> "add_workorder",
                    bob_pubkey_sig |-> bob_pubkey_sig,
                    bob_signature |-> bob_signature, hrac |-> hrac,
                    exc |-> exc,
                    ret |-> IF exc = "none" THEN new_workorder ELSE NoRow,
                    session |-> session,
                    sessions |-> IF eff.exc = "none"
                                 THEN {"default", ResolveSession(session)}
                                 ELSE {"default"}]
        /\ UNCHANGED <<contracts, callers>>

\* "not workorders" of get_workorders: the operand is the Query object, not
\* its rows, and an object without __bool__ and __len__ is true.
NotQuery(rows) ==
    FALSE

\* The result of get_workorders: NotFound, or the query and its rows.
GetWorkordersResult(hrac) ==
    LET rows == WorkordersByHrac(hrac)
    IN  IF NotQuery(rows)
        THEN [exc |-> "NotFound", ret |-> <<>>]
        ELSE [exc |-> "none", ret |-> rows]

\* KeyStore.get_workorders(hrac, session)
get_workorders(hrac, session) ==
    LET res == GetWorkordersResult(hrac)
    IN  /\ last' = [op |-> "get_workorders", hrac |-> hrac,
                    exc |-> res.exc, ret |-> res.ret,
                    session |-> session,
                    sessions |-> {ResolveSession(session)}]
        /\ UNCHANGED <<keys, contracts, workorders, nextKeyId, callers>>

\* Mutant: the delete has lost its filter and removes every workorder.
WorkordersWithout_Unfiltered(hrac) ==
    SelectSeq(workorders, LAMBDA r : FALSE)

\* The Workorders table after Query.delete() of the rows with this hrac.
WorkordersWithout(hrac) ==
    SelectSeq(workorders, LAMBDA r : r.hrac # hrac)

\* KeyStore.del_workorders(hrac, session)
del_workorders(hrac, session, fault) ==
    LET deleted == Len(WorkordersByHrac(hrac))
        ws == WorkordersWithout(hrac)
        exc == CommitOutcome(keys, contracts, fault)
    IN  /\ workorders' = IF exc = "none" THEN ws ELSE workorders
        /\ last' = [op |-> "del_workorders", hrac |-> hrac,
                    exc |-> exc, ret |-> IF exc = "none" THEN deleted ELSE 0,
                    session |-> session,
                    sessions |-> {ResolveSession(session)}]
        /\ UNCHANGED <<keys, contracts, nextKeyId, callers>>

(* ---------------------------------------------------------------------- *)
(* The facade: any call, with any arguments, at any time                   *)
(* ---------------------------------------------------------------------- *)
Fingerprints == {fingerprint_from_key(k) : k \in KeyValues}
KFragArgs == {Null, KFragBytes("F1")}
SignatureArgs == {Null} \cup Signatures

\* The calls on Keys, with arguments from the given sets.
KeyCalls(SigningIn, SessionIn, FaultIn) ==
    \/ \E key \in KeyValues, is_signing \in SigningIn,
          session \in SessionIn, fault \in FaultIn :
          add_key(key, is_signing, session, fault)
    \/ \E fingerprint \in Fingerprints, session \in SessionIn :
          get_key(fingerprint, session)
    \/ \E fingerprint \in Fingerprints, session \in SessionIn,
          fault \in FaultIn :
          del_key(fingerprint, session, fault)

\* The calls on PolicyContracts, with arguments from the given sets.
PolicyCalls(HracStrIn, ExpirationIn, DepositIn, KFragIn, AliceIn, SignatureIn, SessionIn, FaultIn) ==
    \/ \E expiration \in ExpirationIn, deposit \in DepositIn,
          hrac_str \in HracStrIn, kfrag \in KFragArgs,
          alice_pubkey_sig \in AliceIn, alice_signature \in SignatureIn,
          session \in SessionIn, fault \in FaultIn :
          add_policy_contract(expiration, deposit, Encode(hrac_str), kfrag,
                              alice_pubkey_sig, alice_signature, session,
                              fault)
    \/ \E hrac_str \in HracStrIn, session \in SessionIn :
          get_policy_contract(Encode(hrac_str), session)
    \/ \E hrac_str \in HracStrIn, session \in SessionIn, fault \in FaultIn :
          del_policy_contract(Encode(hrac_str), session, fault)
    \/ \E alice \in Principals, hrac_as_hex \in HracStrIn, kfrag \in KFragIn,
          session \in SessionIn, fault \in FaultIn :
          attach_kfrag_to_saved_contract(alice, hrac_as_hex, kfrag, session,
                                         fault)

\* The calls on Workorders, with arguments from the given sets.
WorkCalls(HracStrIn, SessionIn, FaultIn) ==
    \/ \E bob_pubkey_sig \in KeyValues, bob_signature \in Signatures,
          hrac_str \in HracStrIn, session \in SessionIn,
          fault_key \in FaultIn, fault \in FaultIn :
          add_workorder(bob_pubkey_sig, bob_signature, Encode(hrac_str),
                        session, fault_key, fault)
    \/ \E hrac_str \in HracStrIn, session \in SessionIn :
          get_workorders(Encode(hrac_str), session)
    \/ \E hrac_str \in HracStrIn, session \in SessionIn, fault \in FaultIn :
          del_workorders(Encode(hrac_str), session, fault)

\* Every operation, on one policy, on the default session, with a storage
\* engine whose commits can fail.
Next ==
    \/ KeyCalls(BOOLEAN, {None}, BOOLEAN)
    \/ PolicyCalls({"H1"}, {10}, {100}, {"F1"}, KeyValues \cup {None},
                   {Null}, {None}, BOOLEAN)
    \/ WorkCalls({"H1"}, {None}, BOOLEAN)

Spec == Init /\ [][Next]_vars

\* Keys and PolicyContracts, two policies, on the default session with a
\* storage engine that does not fail.
NextPolicy ==
    \/ KeyCalls({TRUE}, {None}, {FALSE})
    \/ PolicyCalls(HracStrs, {10}, {100}, KFrags, KeyValues, {Null}, {None},
                   {FALSE})

SpecPolicy == Init /\ [][NextPolicy]_vars

\* PolicyContracts of one delegator, two policies, with every expiration,
\* deposit and signature, on either session, with a storage engine that
\* does not fail.
NextTerms ==
    PolicyCalls(HracStrs, Expirations, Deposits, KFrags, {"KA"},
                SignatureArgs, SessionArgs, {FALSE})

SpecTerms == Init /\ [][NextTerms]_vars

\* Keys and Workorders, two policies, on the default session with a storage
\* engine that does not fail.
NextWork ==
    \/ KeyCalls({TRUE}, {None}, {FALSE})
    \/ WorkCalls(HracStrs, {None}, {FALSE})

SpecWork == Init /\ [][NextWork]_vars

\* Every operation, on one policy and one delegator, on the default session
\* or on a session of the caller's, with a storage engine that does not
\* fail.
NextSession ==
    \/ KeyCalls({TRUE}, SessionArgs, {FALSE})
    \/ PolicyCalls({"H1"}, {10}, {100}, {"F1"}, {"KA"}, {Null}, SessionArgs,
                   {FALSE})
    \/ WorkCalls({"H1"}, SessionArgs, {FALSE})

SpecSession == Init /\ [][NextSession]_vars

\* Two callers, each on its own session, each making one call of
\* add_policy_contract on the empty store; the steps of the two calls
\* interleave in every order.
NextConcurrent ==
    \/ \E c \in Callers, expiration \in {10}, deposit \in Deposits,
          hrac_str \in HracStrs, kfrag \in KFragArgs,
          alice_pubkey_sig \in KeyValues :
          add_policy_contract_query(c, expiration, deposit, Encode(hrac_str),
                                    kfrag, alice_pubkey_sig)
    \/ \E c \in Callers : add_policy_contract_add(c)
    \/ \E c \in Callers : add_policy_contract_commit(c)

SpecConcurrent == Init /\ [][NextConcurrent]_vars

(* ---------------------------------------------------------------------- *)
(* Properties                                                              *)
(* ---------------------------------------------------------------------- *)
MutatingOps ==
    {"add_key", "del_key", "add_policy_contract", "del_policy_contract",
     "attach_kfrag_to_saved_contract", "add_workorder", "del_workorders"}

\* The stored contract an attach call with this text hrac would load.
Loaded(hrac_as_hex) ==
    First(ContractsByHrac(Encode(hrac_as_hex)))

\* The stored contract has a delegator key whose bytes can be compared.
HasDelegatorKey(policy_contract) ==
    /\ policy_contract # NoRow
    /\ KeyById(policy_contract.alice_pubkey_sig_id) # NoRow

\* C1: a call of attach_kfrag_to_saved_contract on a stored contract whose
\* delegator key bytes differ from alice.stamp raises SuspiciousActivity,
\* and no stored row (the contract's kfrag included) is changed by it.
C1_MismatchStep ==
    (/\ last'.op = "attach_kfrag_to_saved_contract"
     /\ HasDelegatorKey(Loaded(last'.hrac_as_hex))
     /\ KeyById(Loaded(last'.hrac_as_hex).alice_pubkey_sig_id).key_data
            # last'.alice.stamp)
    => (/\ last'.exc = "SuspiciousActivity"
        /\ tables' = tables)

C1_MismatchRaisesBeforeMutation == [][C1_MismatchStep]_vars

\* C1 witness: a mismatching attach was rejected on a contract that already
\* carries a kfrag, with a second contract stored beside it.
C1_Witness ==
    /\ last.op = "attach_kfrag_to_saved_contract"
    /\ last.exc = "SuspiciousActivity"
    /\ Len(contracts) = 2
    /\ Loaded(last.hrac_as_hex).k_frag # Null

\* C2: a call of attach_kfrag_to_saved_contract with the hrac of a stored
\* contract, a principal whose stamp equals the stored delegator key bytes
\* and a fragment F succeeds, and get_policy_contract of that hrac then
\* returns a contract whose kfrag is exactly bytes(F).
C2_MatchStep ==
    (/\ last'.op = "attach_kfrag_to_saved_contract"
     /\ HasDelegatorKey(Loaded(last'.hrac_as_hex))
     /\ KeyById(Loaded(last'.hrac_as_hex).alice_pubkey_sig_id).key_data
            = last'.alice.stamp)
    => (/\ last'.exc = "none"
        /\ \A h \in HracStrs, f \in KFrags :
              (last'.hrac_as_hex = h /\ last'.kfrag = f)
              => (/\ GetPolicyContractResult(Encode(h))'.exc = "none"
                  /\ GetPolicyContractResult(Encode(h))'.ret.k_frag
                         = KFragBytes(f)))

C2_MatchSetsKfrag == [][C2_MatchStep]_vars

\* C2 witness: an attach succeeded on the second of two stored contracts,
\* and replaced a kfrag by a different one.
C2_Witness ==
    /\ last.op = "attach_kfrag_to_saved_contract"
    /\ last.exc = "none"
    /\ Len(contracts) = 2
    /\ contracts[2].hrac = Encode(last.hrac_as_hex)
    /\ contracts[2].k_frag = KFragBytes(last.kfrag)
    /\ contracts[1].k_frag \notin {Null, KFragBytes(last.kfrag)}

\* C3: get_policy_contract and attach_kfrag_to_saved_contract fail with
\* NotFound when no contract with the hrac is stored, and leave the store
\* unchanged.
C3_UnknownHracStep ==
    /\ (/\ last'.op = "get_policy_contract"
        /\ ContractsByHrac(last'.hrac) = <<>>)
       => (last'.exc = "NotFound" /\ tables' = tables)
    /\ (/\ last'.op = "attach_kfrag_to_saved_contract"
        /\ ContractsByHrac(Encode(last'.hrac_as_hex)) = <<>>)
       => (last'.exc = "NotFound" /\ tables' = tables)

C3_UnknownHracNotFound == [][C3_UnknownHracStep]_vars

\* C4: get_workorders fails with NotFound whenever no workorder with the
\* hrac is stored.
C4_NoWorkordersNotFound ==
    (/\ last.op = "get_workorders"
     /\ WorkordersByHrac(last.hrac) = <<>>)
    => last.exc = "NotFound"

\* C5: a mutating operation that fails leaves the stored Keys,
\* PolicyContracts and Workorders exactly as they were before the call.
C5_FailedStep ==
    (last'.op \in MutatingOps /\ last'.exc # "none") => tables' = tables

C5_FailedOperationHasNoEffect == [][C5_FailedStep]_vars

\* C6: at most one PolicyContract is stored per hrac.
C6_OneContractPerHrac ==
    \A h \in Hracs : Len(ContractsByHrac(h)) <= 1

\* C6 witness: add_policy_contract was called with an hrac that is already
\* stored, and was refused.
C6_Witness ==
    /\ last.op = "add_policy_contract"
    /\ last.exc = "IntegrityError"
    /\ Len(ContractsByHrac(last.hrac)) = 1
    /\ Len(contracts) = 2

\* C7: no two stored Key rows have the same fingerprint.
C7_OneKeyPerFingerprint ==
    \A f \in Fingerprints : Len(KeysByFingerprint(f)) <= 1

\* C7 witness: a key whose bytes are already stored was added again, by
\* add_workorder, and was refused, while a contract and a workorder exist.
C7_Witness ==
    /\ last.op = "add_workorder"
    /\ last.exc = "IntegrityError"
    /\ Len(keys) = 2
    /\ contracts # <<>>
    /\ workorders # <<>>

\* C8: get_key(f) raises NotFound when no Key row with fingerprint f is
\* stored; after a successful add_key(k), and as long as no del_key of that
\* fingerprint is called, get_key(fingerprint(k)) returns a public key
\* whose bytes are bytes(k).
C8_GetKeyStep ==
    /\ (last'.op = "get_key" /\ KeysByFingerprint(last'.fingerprint) = <<>>)
       => last'.exc = "NotFound"
    /\ (last'.op = "add_key" /\ last'.exc = "none")
       => \A k \in KeyValues :
             last'.key = k
             => (/\ GetKeyResult(fingerprint_from_key(k))'.exc = "none"
                 /\ KeyBytes(GetKeyResult(fingerprint_from_key(k))'.ret)
                        = KeyBytes(k))
    /\ \A f \in Fingerprints :
          (/\ GetKeyResult(f).exc = "none"
           /\ ~(last'.op = "del_key" /\ last'.fingerprint = f))
          => GetKeyResult(f)' = GetKeyResult(f)
    /\ (last'.op = "get_key" /\ KeysByFingerprint(last'.fingerprint) # <<>>)
       => last'.ret = GetKeyResult(last'.fingerprint).ret

C8_GetKeyAfterAddKey == [][C8_GetKeyStep]_vars

\* C8 witness: get_key returned the key that add_key stored, after other
\* operations have stored a second key, a contract and a workorder.
C8_Witness ==
    /\ last.op = "get_key"
    /\ last.exc = "none"
    /\ KeyBytes(last.ret) = keys[1].key_data
    /\ Len(keys) = 2
    /\ contracts # <<>>
    /\ workorders # <<>>

\* C9: a del_key(f) that returns removes every Key row with fingerprint f
\* and no other row, and changes nothing when there is none, so that
\* get_key(f) right after it raises NotFound.
C9_DelKeyStep ==
    (last'.op = "del_key" /\ last'.exc = "none")
    => (/\ \A f \in Fingerprints :
              last'.fingerprint = f
              => (/\ KeysByFingerprint(f)' = <<>>
                  /\ GetKeyResult(f)'.exc = "NotFound")
        /\ keys' = SelectSeq(keys,
                       LAMBDA r : r.fingerprint # last'.fingerprint)
        /\ KeysByFingerprint(last'.fingerprint) = <<>> => tables' = tables
        /\ UNCHANGED <<contracts, workorders>>)

C9_DelKeyThenGetKeyNotFound == [][C9_DelKeyStep]_vars

\* C9 witness: del_key has removed one of two inserted keys; the other is
\* still stored.
C9_Witness ==
    /\ last.op = "del_key"
    /\ last.exc = "none"
    /\ nextKeyId = 3
    /\ Len(keys) = 1
    /\ keys[1].fingerprint # last.fingerprint

\* C10: when no contract with hrac H is stored, add_policy_contract with
\* expiration T, deposit D, hrac H and no kfrag succeeds, and
\* get_policy_contract(H) then returns a contract with hrac H, expiration
\* T, deposit D and no kfrag.
C10_AddThenGetStep ==
    (/\ last'.op = "add_policy_contract"
     /\ ContractsByHrac(last'.hrac) = <<>>)
    => (/\ last'.exc = "none"
        /\ \A h \in Hracs :
              last'.hrac = h
              => (/\ GetPolicyContractResult(h)'.exc = "none"
                  /\ GetPolicyContractResult(h)'.ret.hrac = h
                  /\ GetPolicyContractResult(h)'.ret.expiration
                         = last'.expiration
                  /\ GetPolicyContractResult(h)'.ret.deposit
                         = last'.deposit
                  /\ last'.kfrag = Null
                     => GetPolicyContractResult(h)'.ret.k_frag = Null))

C10_AddThenGetContract == [][C10_AddThenGetStep]_vars

\* C10 witness: a second contract was added without a kfrag, beside a first
\* one that has a kfrag and another deposit.
C10_Witness ==
    /\ last.op = "add_policy_contract"
    /\ last.exc = "none"
    /\ last.kfrag = Null
    /\ Len(contracts) = 2
    /\ contracts[2].hrac = last.hrac
    /\ contracts[1].k_frag # Null
    /\ contracts[1].deposit # last.deposit
    /\ contracts[1].expiration # last.expiration

\* C11: del_workorders(hrac) returns the number of Workorder rows stored
\* with that hrac just before the call and removes exactly those rows; the
\* workorders of every other hrac, all Keys and all PolicyContracts are
\* unchanged.
C11_DelWorkordersStep ==
    (last'.op = "del_workorders" /\ last'.exc = "none")
    => \A h \in Hracs :
          last'.hrac = h
          => (/\ last'.ret = Len(WorkordersByHrac(h))
              /\ WorkordersByHrac(h)' = <<>>
              /\ \A g \in Hracs \ {h} :
                    WorkordersByHrac(g)' = WorkordersByHrac(g)
              /\ Len(workorders') = Len(workorders) - last'.ret
              /\ UNCHANGED <<keys, contracts>>)

C11_DelWorkordersCountsAndRemoves == [][C11_DelWorkordersStep]_vars

\* C11 witness: del_workorders removed the workorder of one policy and
\* returned 1, and the workorder of the other policy is still stored.
C11_Witness ==
    /\ last.op = "del_workorders"
    /\ last.exc = "none"
    /\ last.ret = 1
    /\ Len(workorders) = 1
    /\ workorders[1].hrac # last.hrac

\* C12: every call of add_workorder with hrac H succeeds, whichever
\* requester key it is given (one that an earlier call used included), and
\* adds one record to what get_workorders(H) returns: after n calls
\* get_workorders(H) returns exactly n records, all with hrac H.
C12_AddWorkorderStep ==
    last'.op = "add_workorder"
    => (/\ last'.exc = "none"
        /\ \A h \in Hracs :
              last'.hrac = h
              => (/\ GetWorkordersResult(h)'.exc = "none"
                  /\ Len(GetWorkordersResult(h)'.ret)
                         = Len(GetWorkordersResult(h).ret) + 1
                  /\ \A i \in DOMAIN GetWorkordersResult(h)'.ret :
                        GetWorkordersResult(h)'.ret[i].hrac = h))

C12_EveryAddWorkorderIsStored == [][C12_AddWorkorderStep]_vars

\* C13: once attach_kfrag_to_saved_contract has set the kfrag of a
\* contract, the next operation, whatever it is (another attach with a
\* matching principal and other fragment bytes included), leaves that kfrag
\* as it is unless it deletes the contract.
C13_KfragFrozenStep ==
    (/\ last.op = "attach_kfrag_to_saved_contract"
     /\ last.exc = "none")
    => \A h \in HracStrs :
          (last.hrac_as_hex = h /\ ContractsByHrac(Encode(h))' # <<>>)
          => Loaded(h)'.k_frag = Loaded(h).k_frag

C13_KfragSetOnce == [][C13_KfragFrozenStep]_vars

\* C15: add_workorder succeeds whether or not a Key row with the
\* requester's bytes is already stored, and the Workorder it returns refers
\* to a stored Key row whose key_data is bytes(bob_pubkey_sig).
C15_RequesterKeyStep ==
    last'.op = "add_workorder"
    => (/\ last'.exc = "none"
        /\ \A id \in 1..MaxKeyId, k \in KeyValues :
              (last'.ret.bob_pubkey_sig_id = id /\ last'.bob_pubkey_sig = k)
              => (/\ KeyById(id)' # NoRow
                  /\ KeyById(id)'.key_data = KeyBytes(k)))

C15_RequesterKeyResolved == [][C15_RequesterKeyStep]_vars

\* C14: add_policy_contract never duplicates the delegator's key.  When a
\* Key row with the bytes of alice_pubkey_sig is stored, the call is not
\* refused on account of the key, the new contract refers to that row and
\* the Keys table is unchanged; otherwise exactly one Key row, with those
\* bytes and is_signing true, is appended and the new contract refers to it.
C14_DelegatorKeyStep ==
    /\ (/\ last'.op = "add_policy_contract"
        /\ last'.alice_pubkey_sig # None
        /\ ContractsByHrac(last'.hrac) = <<>>)
       => last'.exc \in {"none", "OperationalError"}
    /\ (last'.op = "add_policy_contract" /\ last'.exc = "none")
       => \A k \in KeyValues :
             last'.alice_pubkey_sig = k
             => (/\ contracts'[Len(contracts')] = last'.ret
                 /\ IF KeysByKeyData(KeyBytes(k)) # <<>>
                    THEN /\ keys' = keys
                         /\ last'.ret.alice_pubkey_sig_id
                                = First(KeysByKeyData(KeyBytes(k))).id
                    ELSE /\ Len(keys') = Len(keys) + 1
                         /\ SubSeq(keys', 1, Len(keys)) = keys
                         /\ keys'[Len(keys')].key_data = KeyBytes(k)
                         /\ keys'[Len(keys')].is_signing = TRUE
                         /\ keys'[Len(keys')].id
                                = last'.ret.alice_pubkey_sig_id)

C14_DelegatorKeyNotDuplicated == [][C14_DelegatorKeyStep]_vars

\* C14 witness: a contract was added for a delegator whose key add_key had
\* stored before as a non-signing key; it refers to that row, beside another
\* stored key.
C14_Witness ==
    /\ last.op = "add_policy_contract"
    /\ last.exc = "none"
    /\ Len(keys) = 2
    /\ KeyById(last.ret.alice_pubkey_sig_id) # NoRow
    /\ KeyById(last.ret.alice_pubkey_sig_id).is_signing = FALSE
    /\ KeyById(last.ret.alice_pubkey_sig_id).key_data
           = KeyBytes(last.alice_pubkey_sig)

\* C17: every stored PolicyContract, and so every contract that
\* get_policy_contract returns, has no alice_signature, whatever signature
\* add_policy_contract was given.
C17_SignatureNeverStored ==
    /\ \A i \in DOMAIN contracts : contracts[i].alice_signature = Null
    /\ \A h \in Hracs :
          GetPolicyContractResult(h).exc = "none"
          => GetPolicyContractResult(h).ret.alice_signature = Null

\* C17 witness: add_policy_contract was given a signature and a kfrag and
\* succeeded; the stored contract has the kfrag and no signature.
C17_Witness ==
    /\ last.op = "add_policy_contract"
    /\ last.exc = "none"
    /\ last.alice_signature # Null
    /\ last.kfrag # Null
    /\ First(ContractsByHrac(last.hrac)).k_frag = last.kfrag
    /\ First(ContractsByHrac(last.hrac)).alice_signature = Null

\* C16: a call that is given a session of its own does every read, write
\* and commit on that session and never uses the default session; a call
\* that is given none uses the default session only.  This holds for
\* add_workorder's key-creation step as for everything else.
C16_OnlyTheSuppliedSession ==
    last.op # "init" => last.sessions = {ResolveSession(last.session)}

\* C18: every stored PolicyContract refers to a stored Key row as its
\* delegator key and every stored Workorder refers to a stored Key row as
\* its requester key, so that attach_kfrag_to_saved_contract can always
\* compare the stamp with the key of a stored contract.
C18_ReferencesResolve ==
    /\ \A i \in DOMAIN contracts :
          KeyById(contracts[i].alice_pubkey_sig_id) # NoRow
    /\ \A i \in DOMAIN workorders :
          KeyById(workorders[i].bob_pubkey_sig_id) # NoRow
    /\ \A h \in HracStrs, alice \in Principals :
          Loaded(h) # NoRow => AttachCheck(alice, h) # "AttributeError"

\* C19: when two callers, each on its own session, have run
\* add_policy_contract with different hracs and the same delegator key,
\* which neither found stored when it looked, then however their steps
\* interleaved both calls have succeeded and exactly one Key row with those
\* bytes is stored.
C19_ConcurrentAddsShareOneKey ==
    \A k \in KeyValues :
       (/\ \A c \in Callers :
              /\ callers[c].pc = "done"
              /\ callers[c].alice_pubkey_sig = k
              /\ callers[c].found = NoRow
        /\ callers["s1"].hrac # callers["s2"].hrac)
       => (/\ \A c \in Callers : callers[c].exc = "none"
           /\ Len(KeysByKeyData(KeyBytes(k))) = 1)
====
